---- MODULE Spec2Model ----
(***************************************************************************)
(* Model of the role-based access control pallet (src/src/lib.rs).         *)
(*                                                                         *)
(* State: the three storage items of the pallet (Assignments, Roles,       *)
(* IdGenerator) and what the last call handed back to its environment:     *)
(* the call with its arguments and returned value (last), and the events   *)
(* it deposited (events).  Two history variables serve the properties:     *)
(* pre is the storage as it was when the last call started, and issued     *)
(* records, in order, the role ids that successful add_role calls returned;*)
(* burned is the set of ids that rejected add_role calls consumed, and      *)
(* preassigned tells whether some preassign_role call has succeeded.       *)
(* One action per public entry point: grant_role, revoke_role (the two     *)
(* dispatchables), authorize, add_role, preassign_role (trait functions).  *)
(* Calls are serialized by the runtime, so each action is one whole call.  *)
(***************************************************************************)
EXTENDS Integers, Sequences, FiniteSets, TLC

VARIABLES Assignments, Roles, IdGenerator, events, last, pre, issued, burned,
          preassigned

vars ==
    <<Assignments, Roles, IdGenerator, events, last, pre, issued, burned,
      preassigned>>

----------------------------------------------------------------------------
(* Configuration of the pallet and the bounds of the explored inputs.      *)
(* The pallet is generic in the two maximum lengths (the test runtime      *)
(* sets both to 20); they are kept small here, and the inputs of add_role  *)
(* are taken at and just past them.                                        *)

\* Config::NameMaxLength
NameMaxLength == 2

\* Config::GrantersListMaxLength
GrantersListMaxLength == 2

\* Largest value the id counter is driven to (the counter itself is a u32).
MaxId == 2

\* Longest role list the authorize properties range over.
MaxAuthLen == 2

AccountId == {1, 2}

\* Role ids used as arguments: each is issued, or not yet, or skipped.
RoleId == 1 .. MaxId

\* The origins a dispatchable is called with: signed by an account, or one
\* that is not signed (root).
Signed(who) == [system |-> "Signed", who |-> who]

Root == [system |-> "Root"]

\* The calls of a dispatchable that are explored: every signer with every
\* user and role, and one call with an origin that is not signed (such a
\* call returns before it reads its other arguments).
DispatchInputs ==
    {[origin |-> Signed(who), user |-> user, role_id |-> role_id] :
        who \in AccountId, user \in AccountId, role_id \in RoleId}
    \cup {[origin |-> Root, user |-> 1, role_id |-> 1]}

\* Sequences over S of length 0 .. n.
SeqUpTo(S, n) == UNION {[1 .. k -> S] : k \in 0 .. n}

\* The sequence of k copies of x.
Repeat(x, k) == [i \in 1 .. k |-> x]

\* Names offered to add_role: one of exactly the maximum length, and one
\* that is one byte longer.
NameInputs ==
    {Repeat(97, k) : k \in {NameMaxLength, NameMaxLength + 1}}

\* Granter lists offered to add_role: short ones, one of exactly the
\* maximum length, and one that is one entry longer.
GranterInputs ==
    {<<>>, <<1>>}
    \cup {Repeat(1, k) : k \in {GrantersListMaxLength, GrantersListMaxLength + 1}}

\* Role lists offered to a direct authorize call.
AuthorizeInputs == {<<>>, <<2, 1>>}

----------------------------------------------------------------------------
(* Storage accessors.                                                      *)

\* A get whose default for a missing key is true.
AssignmentsGet_default_true(user, role) ==
    IF <<user, role>> \in DOMAIN Assignments
    THEN Assignments[<<user, role>>]
    ELSE TRUE

\* Assignments is a double map with ValueQuery: a missing key reads as the
\* default of bool, false.
AssignmentsGet(user, role) ==
    IF <<user, role>> \in DOMAIN Assignments
    THEN Assignments[<<user, role>>]
    ELSE FALSE

\* A set that flips the stored flag instead of writing true.
AssignmentsSet_toggle(user, role) ==
    IF <<user, role>> \in DOMAIN Assignments
    THEN [k \in (DOMAIN Assignments) \ {<<user, role>>} |-> Assignments[k]]
    ELSE [k \in (DOMAIN Assignments) \cup {<<user, role>>} |->
             IF k = <<user, role>> THEN TRUE ELSE Assignments[k]]

\* Assignments::set(user, role, true): insert, overwriting.
AssignmentsSet(user, role) ==
    [k \in (DOMAIN Assignments) \cup {<<user, role>>} |->
        IF k = <<user, role>> THEN TRUE ELSE Assignments[k]]

\* A remove that removes nothing.
AssignmentsRemove_noop(user, role) == Assignments

\* A remove that clears every entry of the user, as remove_prefix would.
AssignmentsRemove_prefix(user, role) ==
    [k \in {e \in DOMAIN Assignments : e[1] # user} |-> Assignments[k]]

\* Assignments::remove(user, role): delete the key if present.
AssignmentsRemove(user, role) ==
    [k \in (DOMAIN Assignments) \ {<<user, role>>} |-> Assignments[k]]

\* Roles::contains_key(role)
RolesContainsKey(role) == role \in DOMAIN Roles

\* Roles::set(id, Some(info)): insert, overwriting.
RolesSet(id, info) ==
    [k \in (DOMAIN Roles) \cup {id} |-> IF k = id THEN info ELSE Roles[k]]

\* An increment that forgets to add.
increment_stuck(id) == id

\* An increment that wraps around within a narrow id type.
increment_wraps(id) == (id + 1) % MaxId

\* id.increment() of the role id type
increment(id) == id + 1

----------------------------------------------------------------------------
(* Authorize::authorize: the loop over the role list, returning at the     *)
(* first role the user holds.                                              *)

\* An authorize that looks at the first role of the list only.
authorize_first_only(user, roles) ==
    IF Len(roles) = 0 THEN FALSE ELSE AssignmentsGet(user, roles[1])

\* An authorize that wants every listed role held instead of one of them,
\* and so accepts the empty list.
authorize_all(user, roles) ==
    \A i \in 1 .. Len(roles) : AssignmentsGet(user, roles[i])

\* An authorize that also accepts a user who holds a granter of a listed
\* role, as if granting rights were inherited as holding rights.
authorize_inherit(user, roles) ==
    \E i \in 1 .. Len(roles) :
        \/ AssignmentsGet(user, roles[i])
        \/ /\ RolesContainsKey(roles[i])
           /\ \E j \in 1 .. Len(Roles[roles[i]].granters) :
                 AssignmentsGet(user, Roles[roles[i]].granters[j])

RECURSIVE authorize_from(_, _, _)
authorize_from(user, roles, i) ==
    IF i > Len(roles) THEN FALSE
    ELSE IF AssignmentsGet(user, roles[i]) THEN TRUE
    ELSE authorize_from(user, roles, i + 1)

authorize(user, roles) == authorize_from(user, roles, 1)

----------------------------------------------------------------------------
\* The storage a call starts from.
Storage ==
    [Assignments |-> Assignments, Roles |-> Roles, IdGenerator |-> IdGenerator]

Init ==
    /\ Assignments = <<>>
    /\ Roles = <<>>
    /\ IdGenerator = 0
    /\ events = <<>>
    /\ last = [op |-> "none"]
    /\ pre = [Assignments |-> <<>>, Roles |-> <<>>, IdGenerator |-> 0]
    /\ issued = <<>>
    /\ burned = {}
    /\ preassigned = FALSE

\* A grant_role that skips the authorization of the origin.
grant_role_result_noauth(origin, role_id) ==
    IF origin.system # "Signed" THEN "BadOrigin"
    ELSE IF ~RolesContainsKey(role_id) THEN "RoleNotExist"
    ELSE "Ok"

\* A grant_role that authorizes the signer only when the role is found and
\* lets a missing role pass.
grant_role_result_no_lookup(origin, role_id) ==
    IF origin.system # "Signed" THEN "BadOrigin"
    ELSE IF RolesContainsKey(role_id)
            /\ ~authorize(origin.who, Roles[role_id].granters)
    THEN "NotAuthorized"
    ELSE "Ok"

\* The result of grant_role: Ok(()) or an error.  ensure_signed comes
\* first, the role is looked up second, the signer is authorized against
\* the role's granters third.
grant_role_result(origin, role_id) ==
    IF origin.system # "Signed" THEN "BadOrigin"
    ELSE IF ~RolesContainsKey(role_id) THEN "RoleNotExist"
    ELSE IF ~authorize(origin.who, Roles[role_id].granters)
    THEN "NotAuthorized"
    ELSE "Ok"

\* The result of revoke_role: the same three checks, in the same order.
revoke_role_result(origin, role_id) ==
    IF origin.system # "Signed" THEN "BadOrigin"
    ELSE IF ~RolesContainsKey(role_id) THEN "RoleNotExist"
    ELSE IF ~authorize(origin.who, Roles[role_id].granters)
    THEN "NotAuthorized"
    ELSE "Ok"

\* A grant_role that deposits its event only when the ledger changes.
grant_role_event_on_change(origin, user, role_id) ==
    /\ pre' = Storage
    /\ LET res == grant_role_result(origin, role_id) IN
       /\ last' = [op |-> "grant_role", origin |-> origin, user |-> user,
                   role_id |-> role_id, result |-> res]
       /\ IF res = "Ok"
          THEN /\ Assignments' = AssignmentsSet(user, role_id)
               /\ events' = IF AssignmentsGet(user, role_id)
                             THEN <<>>
                             ELSE <<[type |-> "RoleGranted",
                                     user |-> user, role_id |-> role_id]>>
          ELSE /\ UNCHANGED Assignments
               /\ events' = <<>>
    /\ UNCHANGED <<Roles, IdGenerator, issued, burned, preassigned>>

grant_role(origin, user, role_id) ==
    /\ pre' = Storage
    /\ LET res == grant_role_result(origin, role_id) IN
       /\ last' = [op |-> "grant_role", origin |-> origin, user |-> user,
                   role_id |-> role_id, result |-> res]
       /\ IF res = "Ok"
          THEN /\ Assignments' = AssignmentsSet(user, role_id)
               /\ events' = <<[type |-> "RoleGranted",
                              user |-> user, role_id |-> role_id]>>
          ELSE /\ UNCHANGED Assignments
               /\ events' = <<>>
    /\ UNCHANGED <<Roles, IdGenerator, issued, burned, preassigned>>

\* A revoke_role that removes the assignment before it authorizes.
revoke_role_remove_first(origin, user, role_id) ==
    /\ pre' = Storage
    /\ LET res == revoke_role_result(origin, role_id) IN
       /\ last' = [op |-> "revoke_role", origin |-> origin, user |-> user,
                   role_id |-> role_id, result |-> res]
       /\ Assignments' = AssignmentsRemove(user, role_id)
       /\ IF res = "Ok"
          THEN events' = <<[type |-> "RoleRevoked",
                            user |-> user, role_id |-> role_id]>>
          ELSE events' = <<>>
    /\ UNCHANGED <<Roles, IdGenerator, issued, burned, preassigned>>

\* A revoke_role that also removes the assignments of every role that
\* lists the revoked role among its granters.
revoke_role_cascade(origin, user, role_id) ==
    /\ pre' = Storage
    /\ LET res == revoke_role_result(origin, role_id)
           dependent(r) ==
               /\ RolesContainsKey(r)
               /\ \E i \in 1 .. Len(Roles[r].granters) :
                     Roles[r].granters[i] = role_id
       IN
       /\ last' = [op |-> "revoke_role", origin |-> origin, user |-> user,
                   role_id |-> role_id, result |-> res]
       /\ IF res = "Ok"
          THEN /\ Assignments' =
                     [k \in {e \in DOMAIN Assignments :
                                /\ e # <<user, role_id>>
                                /\ ~dependent(e[2])} |-> Assignments[k]]
               /\ events' = <<[type |-> "RoleRevoked",
                              user |-> user, role_id |-> role_id]>>
          ELSE /\ UNCHANGED Assignments
               /\ events' = <<>>
    /\ UNCHANGED <<Roles, IdGenerator, issued, burned, preassigned>>

\* A revoke_role that authorizes the signer against the ledger as it is
\* after the removal (the dispatchable is rolled back when it fails).
revoke_role_check_after(origin, user, role_id) ==
    /\ pre' = Storage
    /\ LET after == AssignmentsRemove(user, role_id)
           res == IF origin.system # "Signed" THEN "BadOrigin"
                  ELSE IF ~RolesContainsKey(role_id) THEN "RoleNotExist"
                  ELSE IF ~\E i \in 1 .. Len(Roles[role_id].granters) :
                             <<origin.who, Roles[role_id].granters[i]>>
                                \in DOMAIN after
                  THEN "NotAuthorized"
                  ELSE "Ok"
       IN
       /\ last' = [op |-> "revoke_role", origin |-> origin, user |-> user,
                   role_id |-> role_id, result |-> res]
       /\ IF res = "Ok"
          THEN /\ Assignments' = after
               /\ events' = <<[type |-> "RoleRevoked",
                              user |-> user, role_id |-> role_id]>>
          ELSE /\ UNCHANGED Assignments
               /\ events' = <<>>
    /\ UNCHANGED <<Roles, IdGenerator, issued, burned, preassigned>>

revoke_role(origin, user, role_id) ==
    /\ pre' = Storage
    /\ LET res == revoke_role_result(origin, role_id) IN
       /\ last' = [op |-> "revoke_role", origin |-> origin, user |-> user,
                   role_id |-> role_id, result |-> res]
       /\ IF res = "Ok"
          THEN /\ Assignments' = AssignmentsRemove(user, role_id)
               /\ events' = <<[type |-> "RoleRevoked",
                              user |-> user, role_id |-> role_id]>>
          ELSE /\ UNCHANGED Assignments
               /\ events' = <<>>
    /\ UNCHANGED <<Roles, IdGenerator, issued, burned, preassigned>>

\* A direct call of Authorize::authorize by another pallet: a pure query.
authorize_call(user, roles) ==
    /\ pre' = Storage
    /\ last' = [op |-> "authorize", user |-> user, roles |-> roles,
                result |-> authorize(user, roles)]
    /\ events' = <<>>
    /\ UNCHANGED
          <<Assignments, Roles, IdGenerator, issued, burned, preassigned>>

\* A final list with the new id in front instead of at the end.
final_granters_prepend(granters, can_assign_itself, next_id) ==
    IF can_assign_itself THEN <<next_id>> \o granters ELSE granters

\* The granter list add_role builds before it validates anything.
final_granters(granters, can_assign_itself, next_id) ==
    IF can_assign_itself THEN granters \o <<next_id>> ELSE granters

\* An add_role that converts the granters before the name.
add_role_result_granters_first(name, granters, next_id) ==
    IF Len(granters) > GrantersListMaxLength
    THEN [tag |-> "GrantersListTooLong", expected |-> GrantersListMaxLength,
          observed |-> Len(granters)]
    ELSE IF Len(name) > NameMaxLength
    THEN [tag |-> "NameTooLong", expected |-> NameMaxLength,
          observed |-> Len(name)]
    ELSE [tag |-> "Ok", id |-> next_id]

\* An add_role whose granter bound is off by one.
add_role_result_off_by_one(name, granters, next_id) ==
    IF Len(name) > NameMaxLength
    THEN [tag |-> "NameTooLong", expected |-> NameMaxLength,
          observed |-> Len(name)]
    ELSE IF Len(granters) >= GrantersListMaxLength
    THEN [tag |-> "GrantersListTooLong", expected |-> GrantersListMaxLength,
          observed |-> Len(granters)]
    ELSE [tag |-> "Ok", id |-> next_id]

\* The value add_role returns: the two try_into conversions of the RoleInfo
\* literal run in field order, name first, each returning early with `?`.
add_role_result(name, granters, next_id) ==
    IF Len(name) > NameMaxLength
    THEN [tag |-> "NameTooLong", expected |-> NameMaxLength,
          observed |-> Len(name)]
    ELSE IF Len(granters) > GrantersListMaxLength
    THEN [tag |-> "GrantersListTooLong", expected |-> GrantersListMaxLength,
          observed |-> Len(granters)]
    ELSE [tag |-> "Ok", id |-> next_id]

\* An add_role that validates first and advances the counter only when the
\* role is stored.
add_role_increment_on_success(name, granters, can_assign_itself) ==
    /\ IdGenerator < MaxId
    /\ pre' = Storage
    /\ LET next_id == increment(IdGenerator)
           final   == final_granters(granters, can_assign_itself, next_id)
           res     == add_role_result(name, final, next_id)
           role    == [name |-> name, granters |-> final]
       IN
       /\ last' = [op |-> "add_role", name |-> name, granters |-> granters,
                   can_assign_itself |-> can_assign_itself, result |-> res]
       /\ IF res.tag = "Ok"
          THEN /\ IdGenerator' = next_id
               /\ Roles' = RolesSet(next_id, role)
               /\ events' = <<[type |-> "RoleCreated",
                              id |-> next_id, info |-> role]>>
               /\ issued' = Append(issued, next_id)
          ELSE /\ UNCHANGED <<IdGenerator, Roles, issued>>
               /\ events' = <<>>
    /\ UNCHANGED <<Assignments, burned, preassigned>>

add_role(name, granters, can_assign_itself) ==
    /\ IdGenerator < MaxId
    /\ pre' = Storage
    /\ LET next_id == increment(IdGenerator)
           final   == final_granters(granters, can_assign_itself, next_id)
           res     == add_role_result(name, final, next_id)
           role    == [name |-> name, granters |-> final]
       IN
       /\ IdGenerator' = next_id
       /\ last' = [op |-> "add_role", name |-> name, granters |-> granters,
                   can_assign_itself |-> can_assign_itself, result |-> res]
       /\ IF res.tag = "Ok"
          THEN /\ Roles' = RolesSet(next_id, role)
               /\ events' = <<[type |-> "RoleCreated",
                              id |-> next_id, info |-> role]>>
               /\ issued' = Append(issued, next_id)
               /\ UNCHANGED burned
          ELSE /\ UNCHANGED <<Roles, issued>>
               /\ events' = <<>>
               /\ burned' = burned \cup {next_id}
    /\ UNCHANGED <<Assignments, preassigned>>

\* A preassign_role that does not look the role up.
preassign_role_result_unchecked(role) == "Ok"

preassign_role_result(role) ==
    IF ~RolesContainsKey(role) THEN "RoleNotExist" ELSE "Ok"

\* A preassign_role that writes the entry before it looks the role up.
preassign_role_set_first(user, role) ==
    /\ pre' = Storage
    /\ last' = [op |-> "preassign_role", user |-> user, role_id |-> role,
                result |-> preassign_role_result(role)]
    /\ Assignments' = AssignmentsSet(user, role)
    /\ preassigned' = (preassigned \/ preassign_role_result(role) = "Ok")
    /\ events' = <<>>
    /\ UNCHANGED <<Roles, IdGenerator, issued, burned>>

preassign_role(user, role) ==
    /\ pre' = Storage
    /\ LET res == preassign_role_result(role) IN
       /\ last' = [op |-> "preassign_role", user |-> user, role_id |-> role,
                   result |-> res]
       /\ IF res = "Ok"
          THEN /\ Assignments' = AssignmentsSet(user, role)
               /\ preassigned' = TRUE
          ELSE UNCHANGED <<Assignments, preassigned>>
    /\ events' = <<>>
    /\ UNCHANGED <<Roles, IdGenerator, issued, burned>>

Next ==
    \/ \E call \in DispatchInputs :
          grant_role(call.origin, call.user, call.role_id)
    \/ \E call \in DispatchInputs :
          revoke_role(call.origin, call.user, call.role_id)
    \/ \E user \in AccountId, roles \in AuthorizeInputs :
          authorize_call(user, roles)
    \/ \E name \in NameInputs, granters \in GranterInputs,
          can_assign_itself \in BOOLEAN :
          add_role(name, granters, can_assign_itself)
    \/ \E user \in AccountId, role \in RoleId :
          preassign_role(user, role)

Spec == Init /\ [][Next]_vars

----------------------------------------------------------------------------
(* Vocabulary of the properties, stated on the stored data directly.  Each *)
(* property is about the last call: pre is the storage it started from,    *)
(* the storage variables are what it left behind.                          *)

\* The ledger holds (account, role).
HeldIn(ledger, account, role) ==
    /\ <<account, role>> \in DOMAIN ledger
    /\ ledger[<<account, role>>] = TRUE

\* The account holds at least one role of the list, in the ledger.
HoldsSomeIn(ledger, account, roles) ==
    \E i \in 1 .. Len(roles) : HeldIn(ledger, account, roles[i])

Held(account, role) == HeldIn(Assignments, account, role)

HeldBefore(account, role) == HeldIn(pre.Assignments, account, role)

\* The outcome the gating of grant_role and revoke_role is said to have,
\* decided on the storage before the call.
ThreeWayOutcome(caller, role) ==
    IF role \notin DOMAIN pre.Roles THEN "RoleNotExist"
    ELSE IF ~HoldsSomeIn(pre.Assignments, caller, pre.Roles[role].granters)
    THEN "NotAuthorized"
    ELSE "Ok"

\* The last call is a grant_role or revoke_role made by a signing account.
IsGrantOrRevoke ==
    /\ last.op \in {"grant_role", "revoke_role"}
    /\ last.origin.system = "Signed"

Caller == last.origin.who

\* The last call left the three storage items as it found them.
StorageUnchanged ==
    /\ Assignments = pre.Assignments
    /\ Roles = pre.Roles
    /\ IdGenerator = pre.IdGenerator

----------------------------------------------------------------------------
\* C1: every grant_role and revoke_role call returns the three-way outcome
\* decided on the state before the call: RoleNotExist if the role is not in
\* Roles, else NotAuthorized if the caller holds none of the role's
\* granters, else Ok.
C1_GatingOutcome ==
    IsGrantOrRevoke => last.result = ThreeWayOutcome(Caller, last.role_id)

\* A grant_role refused with NotAuthorized although the caller holds a role.
C1_Witness ==
    /\ last.op = "grant_role"
    /\ last.result = "NotAuthorized"
    /\ \E r \in RoleId : HeldBefore(Caller, r)

\* C2: right after a successful grant_role(caller, user, role),
\* authorize(user, [role]) is true; right after a successful
\* revoke_role(caller, user, role), it is false.
C2_GrantThenAuthorize ==
    /\ (last.op = "grant_role" /\ last.result = "Ok")
          => authorize(last.user, <<last.role_id>>)
    /\ (last.op = "revoke_role" /\ last.result = "Ok")
          => ~authorize(last.user, <<last.role_id>>)

\* A successful revoke_role of a role that another account held.
C2_Witness ==
    /\ last.op = "revoke_role"
    /\ last.result = "Ok"
    /\ last.user # Caller
    /\ HeldBefore(last.user, last.role_id)

\* C3: authorize(account, roles) is true exactly when the ledger holds
\* (account, r) for some r of roles, whether or not the ids exist in Roles;
\* it is false for the empty list.  Stated of the call just made and, in
\* the storage it was made in, of every account and every list of up to
\* MaxAuthLen ids (0 is an id that is never issued).
C3_AuthorizeIffHeld ==
    last.op = "authorize"
       => /\ last.result = HoldsSomeIn(pre.Assignments, last.user, last.roles)
          /\ \A account \in AccountId, roles \in SeqUpTo(0 .. MaxId, MaxAuthLen) :
                authorize(account, roles)
                   = HoldsSomeIn(Assignments, account, roles)
          /\ \A account \in AccountId : ~authorize(account, <<>>)

\* An authorize call answered true by a role that is not the first of the list.
C3_Witness ==
    /\ last.op = "authorize"
    /\ last.result = TRUE
    /\ Len(last.roles) = 2
    /\ ~Held(last.user, last.roles[1])

\* C4: a grant_role or revoke_role call that fails with NotAuthorized or
\* RoleNotExist changes nothing: ledger, Roles and id counter are as before
\* and the call deposits no event.
C4_FailedCallNoChange ==
    (IsGrantOrRevoke /\ last.result # "Ok")
       => /\ last.result \in {"NotAuthorized", "RoleNotExist"}
          /\ StorageUnchanged
          /\ events = <<>>

\* A revoke_role refused with NotAuthorized whose target pair is held.
C4_Witness ==
    /\ last.op = "revoke_role"
    /\ last.result = "NotAuthorized"
    /\ Held(last.user, last.role_id)

\* C5: the ids returned by successful add_role calls are strictly
\* increasing in issuance order, hence pairwise distinct, whatever calls
\* come in between, and no call decreases the id counter.
C5_IdsStrictlyIncreasing ==
    /\ IdGenerator >= pre.IdGenerator
    /\ \A i, j \in 1 .. Len(issued) : i < j => issued[i] < issued[j]
    /\ (last.op = "add_role" /\ last.result.tag = "Ok")
          => /\ Len(issued) > 0
             /\ issued[Len(issued)] = last.result.id
             /\ last.result.id > pre.IdGenerator
             /\ last.result.id \notin DOMAIN pre.Roles

\* The second id is returned after an assignment was made.
C5_Witness ==
    /\ last.op = "add_role"
    /\ last.result.tag = "Ok"
    /\ Len(issued) >= 2
    /\ Assignments # <<>>

\* C6: an authorized grant_role of a pair that is already held, and an
\* authorized revoke_role of a pair that is not held, succeed and leave the
\* ledger as it was.  A successful grant leaves the pair held and a
\* successful revoke leaves it not held, so the same call made again is
\* such a call and changes nothing more.
C6_Idempotent ==
    /\ (/\ IsGrantOrRevoke
        /\ last.role_id \in DOMAIN pre.Roles
        /\ HoldsSomeIn(pre.Assignments, Caller, pre.Roles[last.role_id].granters))
       => last.result = "Ok"
    /\ (/\ last.op = "grant_role"
        /\ last.result = "Ok")
       => /\ HeldBefore(last.user, last.role_id) => Assignments = pre.Assignments
          /\ Held(last.user, last.role_id)
          /\ AssignmentsSet(last.user, last.role_id) = Assignments
    /\ (/\ last.op = "revoke_role"
        /\ last.result = "Ok")
       => /\ ~HeldBefore(last.user, last.role_id) => Assignments = pre.Assignments
          /\ ~Held(last.user, last.role_id)
          /\ AssignmentsRemove(last.user, last.role_id) = Assignments

\* A successful grant_role of a pair that was already held.
C6_Witness ==
    /\ last.op = "grant_role"
    /\ last.result = "Ok"
    /\ HeldBefore(last.user, last.role_id)

\* The length of the granter list the last add_role validated.
FinalCount ==
    Len(last.granters) + (IF last.can_assign_itself THEN 1 ELSE 0)

\* C7: add_role with a name longer than NameMaxLength returns
\* NameTooLong{expected = NameMaxLength, observed = len(name)} whatever the
\* granters and the flag are, leaves Roles and the ledger as they were and
\* deposits no event.
C7_NameTooLong ==
    (last.op = "add_role" /\ Len(last.name) > NameMaxLength)
       => /\ last.result = [tag |-> "NameTooLong",
                             expected |-> NameMaxLength,
                             observed |-> Len(last.name)]
          /\ Roles = pre.Roles
          /\ Assignments = pre.Assignments
          /\ events = <<>>

\* An add_role refused for its name whose final granter list is too long too.
C7_Witness ==
    /\ last.op = "add_role"
    /\ Len(last.name) > NameMaxLength
    /\ FinalCount > GrantersListMaxLength
    /\ last.result.tag = "NameTooLong"

\* C8: add_role with a valid name returns
\* GrantersListTooLong{expected = GrantersListMaxLength, observed = count}
\* exactly when the final list (the supplied granters, plus the new id when
\* the flag is set) has count > GrantersListMaxLength entries, and then
\* Roles is unchanged; otherwise it succeeds.
C8_GrantersListTooLong ==
    (last.op = "add_role" /\ Len(last.name) <= NameMaxLength)
       => IF FinalCount > GrantersListMaxLength
          THEN /\ last.result = [tag |-> "GrantersListTooLong",
                                  expected |-> GrantersListMaxLength,
                                  observed |-> FinalCount]
               /\ Roles = pre.Roles
          ELSE last.result.tag = "Ok"

\* Exactly GrantersListMaxLength granters with the flag set: refused, with
\* one more than the maximum observed.
C8_Witness ==
    /\ last.op = "add_role"
    /\ Len(last.name) <= NameMaxLength
    /\ Len(last.granters) = GrantersListMaxLength
    /\ last.can_assign_itself
    /\ last.result.tag = "GrantersListTooLong"
    /\ last.result.observed = GrantersListMaxLength + 1

\* C9: a successful add_role stores, under the id it returns, the supplied
\* name and the supplied granters, followed by that id when the flag is
\* set; a holder of a role whose granter list is its own id alone passes
\* the gating of grant_role and revoke_role for that role.
C9_StoredRoleInfo ==
    /\ (last.op = "add_role" /\ last.result.tag = "Ok")
          => /\ last.result.id \in DOMAIN Roles
             /\ Roles[last.result.id].name = last.name
             /\ Roles[last.result.id].granters =
                   IF last.can_assign_itself
                   THEN Append(last.granters, last.result.id)
                   ELSE last.granters
             /\ (last.granters = <<>> /\ last.can_assign_itself)
                   => Roles[last.result.id].granters = <<last.result.id>>
    /\ \A r \in DOMAIN Roles, u \in AccountId :
          (Roles[r].granters = <<r>> /\ Held(u, r))
             => /\ grant_role_result(Signed(u), r) = "Ok"
                /\ revoke_role_result(Signed(u), r) = "Ok"

\* A role created with a supplied granter and the flag set, whose id differs
\* from the supplied granter.
C9_Witness ==
    /\ last.op = "add_role"
    /\ last.result.tag = "Ok"
    /\ last.can_assign_itself
    /\ Len(last.granters) = 1
    /\ last.granters[1] # last.result.id

\* C10: preassign_role(user, role) succeeds exactly when role is in Roles,
\* whoever holds whatever, and then (user, role) is held; otherwise it
\* returns RoleNotExist and the ledger is unchanged; Roles and the id
\* counter are unchanged in both cases.
C10_Preassign ==
    last.op = "preassign_role"
       => /\ last.result =
                IF last.role_id \in DOMAIN pre.Roles THEN "Ok" ELSE "RoleNotExist"
          /\ last.result = "Ok" => Held(last.user, last.role_id)
          /\ last.result # "Ok" => Assignments = pre.Assignments
          /\ Roles = pre.Roles
          /\ IdGenerator = pre.IdGenerator

\* A successful preassign_role of a role that has no granter at all, made
\* when nobody held any role.
C10_Witness ==
    /\ last.op = "preassign_role"
    /\ last.result = "Ok"
    /\ Roles[last.role_id].granters = <<>>
    /\ pre.Assignments = <<>>

\* C11: the Role Directory is write-once per id: every id that was in Roles
\* when the last call started is still there after it, with the same name
\* and the same granter list, whichever of the five operations the call was.
C11_WriteOnce ==
    \A r \in DOMAIN pre.Roles :
        /\ r \in DOMAIN Roles
        /\ Roles[r] = pre.Roles[r]

\* A second role was created while the first one was in the directory.
C11_Witness ==
    /\ last.op = "add_role"
    /\ last.result.tag = "Ok"
    /\ pre.Roles # <<>>
    /\ Roles # pre.Roles

\* C12: in every reachable state every held (account, role) pair refers to
\* a role id that is in Roles; in particular no account holds an id that a
\* rejected add_role consumed.
C12_HeldRolesExist ==
    /\ \A k \in DOMAIN Assignments :
          Assignments[k] = TRUE => k[2] \in DOMAIN Roles
    /\ \A account \in AccountId, r \in burned : ~Held(account, r)

\* A preassign_role of an id that a rejected add_role consumed, refused
\* while a later id is in the directory.
C12_Witness ==
    /\ last.op = "preassign_role"
    /\ last.role_id \in burned
    /\ last.result = "RoleNotExist"
    /\ \E r \in DOMAIN Roles : r > last.role_id

\* C13: granting rights are not holding rights.  An account for which
\* (account, R) is not held gets authorize(account, [R]) = false, also when
\* it holds a role listed among the granters of R; and a pair (account, R)
\* becomes held only by a successful grant_role or preassign_role of that
\* very pair, never by an add_role or by an assignment of another role.
C13_GranterIsNotHolder ==
    /\ \A account \in AccountId, r \in RoleId :
          ~Held(account, r) => ~authorize(account, <<r>>)
    /\ \A account \in AccountId, r \in RoleId :
          (Held(account, r) /\ ~HeldBefore(account, r))
             => /\ last.op \in {"grant_role", "preassign_role"}
                /\ last.result = "Ok"
                /\ last.user = account
                /\ last.role_id = r

\* A role R was created with another role G as granter while an account
\* held G: the account may now grant R and does not hold R.
C13_Witness ==
    /\ last.op = "add_role"
    /\ last.result.tag = "Ok"
    /\ \E account \in AccountId, i \in 1 .. Len(last.granters) :
          /\ last.granters[i] # last.result.id
          /\ Held(account, last.granters[i])
          /\ grant_role_result(Signed(account), last.result.id) = "Ok"
          /\ ~Held(account, last.result.id)

\* The ids that rejected add_role calls consumed between lo and hi.
BurnedBetween(lo, hi) == {b \in burned : lo < b /\ b < hi}

\* C14: every add_role call, accepted or rejected, advances the id counter
\* by exactly one step before it validates.  A successful call returns the
\* successor of the counter it found, so two successful calls in a row
\* return consecutive ids; a rejected call consumes the id it would have
\* returned, so the next id returned lies past the last one returned by as
\* many steps more as calls were rejected in between; a consumed id is
\* never in Roles.
C14_CounterAdvances ==
    /\ last.op = "add_role" => IdGenerator = pre.IdGenerator + 1
    /\ (last.op = "add_role" /\ last.result.tag = "Ok")
          => /\ last.result.id = pre.IdGenerator + 1
             /\ last.result.id \notin burned
    /\ (last.op = "add_role" /\ last.result.tag # "Ok")
          => /\ last.result.tag \in {"NameTooLong", "GrantersListTooLong"}
             /\ IdGenerator \in burned
             /\ Roles = pre.Roles
    /\ burned \cap DOMAIN Roles = {}
    /\ IdGenerator = Len(issued) + Cardinality(burned)
    /\ Len(issued) > 0
          => issued[1] = 1 + Cardinality(BurnedBetween(0, issued[1]))
    /\ \A i \in 1 .. Len(issued) - 1 :
          issued[i + 1] =
             issued[i] + 1 + Cardinality(BurnedBetween(issued[i], issued[i + 1]))

\* The call after a rejected add_role succeeds: it returns the id two steps
\* past the counter the rejected call found, and the id in between is not
\* in the directory.
C14_Witness ==
    /\ last.op = "add_role"
    /\ last.result.tag = "Ok"
    /\ last.result.id - 1 \in burned
    /\ last.result.id - 1 \notin DOMAIN Roles
    /\ last.result.id \in DOMAIN Roles

\* The last call is made by a signing account on its own assignment.
ActsOnSelf ==
    /\ IsGrantOrRevoke
    /\ last.user = Caller
    /\ last.role_id \in DOMAIN pre.Roles

\* C15: grant_role and revoke_role authorize the caller on the ledger as it
\* is before the call and write afterwards, so a caller may act on its own
\* assignment.  A holder of a self-granting role A that revokes A from
\* itself succeeds and no longer holds A; from then on, as in any state,
\* a grant_role or revoke_role of A by a caller that holds no granter of A
\* returns NotAuthorized.  A caller that holds a granter of R grants R to
\* itself with success and then holds R.
C15_ActOnOwnAssignment ==
    /\ (/\ ActsOnSelf
        /\ last.op = "revoke_role"
        /\ HeldBefore(Caller, last.role_id)
        /\ \E i \in 1 .. Len(pre.Roles[last.role_id].granters) :
              pre.Roles[last.role_id].granters[i] = last.role_id)
       => /\ last.result = "Ok"
          /\ ~Held(Caller, last.role_id)
          /\ ~HoldsSomeIn(Assignments, Caller, Roles[last.role_id].granters)
                => /\ grant_role_result(last.origin, last.role_id)
                         = "NotAuthorized"
                   /\ revoke_role_result(last.origin, last.role_id)
                         = "NotAuthorized"
    /\ (/\ IsGrantOrRevoke
        /\ last.role_id \in DOMAIN pre.Roles
        /\ ~HoldsSomeIn(pre.Assignments, Caller,
                        pre.Roles[last.role_id].granters))
       => /\ last.result = "NotAuthorized"
          /\ Assignments = pre.Assignments
    /\ (/\ ActsOnSelf
        /\ last.op = "grant_role"
        /\ HoldsSomeIn(pre.Assignments, Caller,
                       pre.Roles[last.role_id].granters))
       => /\ last.result = "Ok"
          /\ Held(Caller, last.role_id)

\* A holder of a self-granting role revoked it from itself and is left
\* with no granter of that role.
C15_Witness ==
    /\ ActsOnSelf
    /\ last.op = "revoke_role"
    /\ last.result = "Ok"
    /\ HeldBefore(Caller, last.role_id)
    /\ ~Held(Caller, last.role_id)
    /\ ~HoldsSomeIn(Assignments, Caller, Roles[last.role_id].granters)

\* The ledger is as before the last call at every entry other than key.
LedgerSameExcept(key) ==
    \A k \in (DOMAIN Assignments \cup DOMAIN pre.Assignments) \ {key} :
        /\ k \in DOMAIN Assignments
        /\ k \in DOMAIN pre.Assignments
        /\ Assignments[k] = pre.Assignments[k]

\* Roles is as before the last call at every id other than id.
RolesSameExcept(id) ==
    \A r \in (DOMAIN Roles \cup DOMAIN pre.Roles) \ {id} :
        /\ r \in DOMAIN Roles
        /\ r \in DOMAIN pre.Roles
        /\ Roles[r] = pre.Roles[r]

\* C16: frame of each operation.  A successful grant_role, revoke_role or
\* preassign_role changes at most the ledger entry (user, role) and leaves
\* every other entry, Roles and the id counter as they were; add_role,
\* accepted or rejected, leaves the ledger as it was, and an accepted one
\* changes Roles at the returned id only; authorize changes nothing.
C16_Frame ==
    /\ (/\ last.op \in {"grant_role", "revoke_role", "preassign_role"}
        /\ last.result = "Ok")
       => /\ LedgerSameExcept(<<last.user, last.role_id>>)
          /\ Roles = pre.Roles
          /\ IdGenerator = pre.IdGenerator
    /\ last.op = "add_role"
       => /\ Assignments = pre.Assignments
          /\ last.result.tag = "Ok" => RolesSameExcept(last.result.id)
    /\ last.op = "authorize" => StorageUnchanged

\* A successful revoke_role took one role from a user who keeps another.
C16_Witness ==
    /\ last.op = "revoke_role"
    /\ last.result = "Ok"
    /\ HeldBefore(last.user, last.role_id)
    /\ ~Held(last.user, last.role_id)
    /\ \E r \in RoleId : r # last.role_id /\ Held(last.user, r)

\* The events the last call is said to deposit, given what it returned.
ExpectedEvents ==
    IF last.op = "grant_role" /\ last.result = "Ok"
    THEN <<[type |-> "RoleGranted",
            user |-> last.user, role_id |-> last.role_id]>>
    ELSE IF last.op = "revoke_role" /\ last.result = "Ok"
    THEN <<[type |-> "RoleRevoked",
            user |-> last.user, role_id |-> last.role_id]>>
    ELSE IF last.op = "add_role" /\ last.result.tag = "Ok"
    THEN <<[type |-> "RoleCreated",
            id |-> last.result.id, info |-> Roles[last.result.id]]>>
    ELSE <<>>

\* C17: events match committed effects one to one.  A successful
\* grant_role deposits exactly one RoleGranted{user, role_id}, a successful
\* revoke_role exactly one RoleRevoked{user, role_id}, a successful
\* add_role exactly one RoleCreated{id, info} with the returned id and the
\* stored RoleInfo; a failed call of these, preassign_role and authorize
\* deposit nothing.  A grant or revoke that leaves the ledger as it was
\* deposits its event all the same.
C17_Events ==
    events = ExpectedEvents

\* A grant_role of a pair that was already held deposited RoleGranted
\* although the ledger did not change.
C17_Witness ==
    /\ last.op = "grant_role"
    /\ last.result = "Ok"
    /\ Assignments = pre.Assignments
    /\ Len(events) = 1
    /\ events[1].type = "RoleGranted"

\* C18: bootstrap.  As long as no preassign_role has succeeded, the ledger
\* is empty and no grant_role or revoke_role succeeds, whatever add_role,
\* grant_role, revoke_role and authorize calls were made; and in any state
\* a grant_role or revoke_role by a caller that holds no role at all does
\* not succeed and leaves the ledger as it was.
C18_Bootstrap ==
    /\ ~preassigned
          => /\ Assignments = <<>>
             /\ last.op \in {"grant_role", "revoke_role"}
                   => last.result # "Ok"
    /\ (IsGrantOrRevoke /\ \A r \in RoleId : ~HeldBefore(Caller, r))
          => /\ last.result \in {"RoleNotExist", "NotAuthorized"}
             /\ Assignments = pre.Assignments

\* Before any preassign_role succeeded, a grant_role of an existing
\* self-granting role to the caller itself is refused.
C18_Witness ==
    /\ ~preassigned
    /\ last.op = "grant_role"
    /\ IsGrantOrRevoke
    /\ last.user = Caller
    /\ last.role_id \in DOMAIN Roles
    /\ Roles[last.role_id].granters = <<last.role_id>>
    /\ last.result = "NotAuthorized"

\* Some account holds the role, in the ledger.
HasHolderIn(ledger, role) ==
    \E account \in AccountId : HeldIn(ledger, account, role)

\* C19: right after a successful add_role returned id R no account holds
\* R, also when the flag made R its own granter; the ledger never has an
\* entry for an id the counter has not reached; hence a role whose only
\* granter is itself gets its first holder from preassign_role alone.
C19_NewRoleNoHolders ==
    /\ (last.op = "add_role" /\ last.result.tag = "Ok")
          => \A account \in AccountId :
                /\ <<account, last.result.id>> \notin DOMAIN Assignments
                /\ ~authorize(account, <<last.result.id>>)
    /\ \A k \in DOMAIN Assignments : k[2] <= IdGenerator
    /\ \A r \in DOMAIN Roles :
          (/\ Roles[r].granters = <<r>>
           /\ ~HasHolderIn(pre.Assignments, r)
           /\ HasHolderIn(Assignments, r))
             => last.op = "preassign_role" /\ last.role_id = r

\* A role was created as its own only granter while other roles were held.
C19_Witness ==
    /\ last.op = "add_role"
    /\ last.result.tag = "Ok"
    /\ Roles[last.result.id].granters = <<last.result.id>>
    /\ \E account \in AccountId, r \in RoleId : Held(account, r)

\* C20: a role whose stored granter list is empty (created with no
\* granters and the flag off) cannot be granted or revoked: in every
\* reachable state grant_role and revoke_role on it return NotAuthorized
\* for every signer and leave the ledger as it was, so an account that
\* holds it keeps it, and an account comes to hold it through
\* preassign_role only.
C20_Ungrantable ==
    /\ \A r \in DOMAIN Roles, account \in AccountId :
          Roles[r].granters = <<>>
             => /\ grant_role_result(Signed(account), r) = "NotAuthorized"
                /\ revoke_role_result(Signed(account), r) = "NotAuthorized"
    /\ (/\ IsGrantOrRevoke
        /\ last.role_id \in DOMAIN pre.Roles
        /\ pre.Roles[last.role_id].granters = <<>>)
       => /\ last.result = "NotAuthorized"
          /\ Assignments = pre.Assignments
    /\ \A r \in DOMAIN pre.Roles, account \in AccountId :
          pre.Roles[r].granters = <<>>
             => /\ HeldBefore(account, r) => Held(account, r)
                /\ (Held(account, r) /\ ~HeldBefore(account, r))
                      => /\ last.op = "preassign_role"
                         /\ last.user = account
                         /\ last.role_id = r

\* A revoke_role of a held role without granters, made by a signer that
\* holds that role and another one, was refused and the role is still held.
C20_Witness ==
    /\ last.op = "revoke_role"
    /\ IsGrantOrRevoke
    /\ last.role_id \in DOMAIN Roles
    /\ Roles[last.role_id].granters = <<>>
    /\ last.result = "NotAuthorized"
    /\ Held(last.user, last.role_id)
    /\ \A r \in RoleId : Held(Caller, r)

\* The role lists g among its granters, in the directory as it is now.
HasGranter(role, g) ==
    /\ role \in DOMAIN Roles
    /\ \E i \in 1 .. Len(Roles[role].granters) : Roles[role].granters[i] = g

\* C21: no cascading revocation.  A successful revoke_role(_, g, G) removes
\* the entry (g, G) and no other: every other held pair is still held, in
\* particular every pair (u, R) of a role R that lists G as granter, also
\* when g is left with no granter of R.  More generally a held pair stops
\* being held only by a successful revoke_role of that very pair.
C21_NoCascade ==
    /\ (last.op = "revoke_role" /\ last.result = "Ok")
          => /\ DOMAIN Assignments
                   = DOMAIN pre.Assignments \ {<<last.user, last.role_id>>}
             /\ \A u \in AccountId, r \in RoleId :
                   (/\ HasGranter(r, last.role_id)
                    /\ <<u, r>> # <<last.user, last.role_id>>
                    /\ HeldBefore(u, r))
                      => Held(u, r)
    /\ \A u \in AccountId, r \in RoleId :
          (HeldBefore(u, r) /\ ~Held(u, r))
             => /\ last.op = "revoke_role"
                /\ last.result = "Ok"
                /\ last.user = u
                /\ last.role_id = r

\* The granter role G was revoked from an account g that is left with no
\* granter of a role R, while another account still holds R.
C21_Witness ==
    /\ last.op = "revoke_role"
    /\ last.result = "Ok"
    /\ HeldBefore(last.user, last.role_id)
    /\ \E u \in AccountId, r \in RoleId :
          /\ u # last.user
          /\ r # last.role_id
          /\ HasGranter(r, last.role_id)
          /\ Held(u, r)
          /\ ~HoldsSomeIn(Assignments, last.user, Roles[r].granters)

====
